---- MODULE Spec2Model ----
(***************************************************************************)
(* Model of the waveform synth of microwave (src/microwave/src/synth.rs):  *)
(* the control thread's WaveformBackend sends messages over an mpsc        *)
(* channel, the audio thread's WaveformSynth::write drains the channel     *)
(* through SynthState::process_message and then renders the voice table.   *)
(*                                                                         *)
(* Numbers: f64 pressures are fixed-point multiples of 1/Scale, so that    *)
(* the cube root of the pressures used here is exact.  Amplitudes are      *)
(* multiples of 1e-4, so that the eviction threshold 0.0001 is 1.          *)
(***************************************************************************)
EXTENDS Integers, Sequences, FiniteSets, TLC

\* ---------------------------------------------------------------- bounds
NumIds == 2
MaxSends == 4

\* ------------------------------------------------------------- constants
Scale == 8 * 8 * 8
Threshold == 1
NoFade == -1
DamperCcn == 64

SourceIds == 1..NumIds
StartPitches == {440}
UpdatePitches == {466}
KeyPressures == {Scale}
DamperValues == {0, Scale \div 8, Scale, 2 * Scale}
BendValues == {4096}
AmpValues == {0, Threshold}
Controllers == {DamperCcn}

VARIABLES
    queue,       \* messages in flight in the mpsc channel (Sender -> Receiver)
    state,       \* SynthState: playing, storage, damper_pedal_pressure, pitch_bend, last_id
    pc,          \* position of the audio callback: "idle" or "drain" (inside write)
    sent,        \* number of calls the backend has received (serial of the next one)
    lifecycle,   \* per source id, the last Start/Stop message that was processed
    buffer,      \* a frame of the host's output: the sample it held, left and right after write
    heard,       \* the pitches one voice was rendered with, block after block
    frac,        \* a call of Ratio::nearest_fraction: its input and its result
    expr,        \* a call of RatioExpression::from_str: the parsed expression and its result
    startup,     \* the process from main on: the file system, what was created, output, exit
    midi,        \* MidiOutBackend: its tuner, its program and the status messages it sent
    model,       \* Model: pressed_physical_keys, alt, ctrl, the borders, the events forwarded
    search,      \* the local variables of the while loop of NearestFraction::for_ratio
    backend      \* WaveformBackend: the length of waveforms, curr_waveform

\* the parts of microwave outside the synth, each with a specification of its own
app == <<expr, startup, midi, model, search, backend>>

vars == <<queue, state, pc, sent, lifecycle, buffer, heard, frac, app>>

\* what the synth claims of Spec do not observe
observed == <<buffer, heard, frac, app>>

\* ------------------------------------------------------------ voice keys
Stable(id) == <<"Stable", id>>
Fading(n) == <<"Fading", n>>

IsStable(key) == key[1] = "Stable"
IsFading(key) == key[1] = "Fading"

\* ------------------------------------------- HashMap<WaveformState, Waveform>
\* The table is a set of (key, voice) entries; insert and remove are the
\* operations of std::collections::HashMap.
Keys(playing) == {e.key : e \in playing}

ContainsKey(playing, key) == \E e \in playing : e.key = key

Get(playing, key) == (CHOOSE e \in playing : e.key = key).voice

Remove(playing, key) == {e \in playing : e.key # key}

InsertKeepOld(playing, key, voice) == playing \cup {[key |-> key, voice |-> voice]}

Insert(playing, key, voice) ==
    Remove(playing, key) \cup {[key |-> key, voice |-> voice]}

\* ------------------------------------------------------------ waveforms
\* WaveformSpec::create_waveform: a fresh voice, not released, audible.
CreateWaveform(uid, pitch) ==
    [uid |-> uid, pitch |-> pitch, pressure |-> 0, pitch_bend |-> 0,
     curr_amplitude |-> Threshold, fade |-> NoFade]

\* Waveform::set_fade: the release is computed from the given damper pressure.
SetFade(voice, damper) == [voice EXCEPT !.fade = damper]

\* ------------------------------------------------------------- messages
StartMsg(id, waveform) == [type |-> "Start", id |-> id, waveform |-> waveform]
UpdatePitchMsg(id, pitch) == [type |-> "UpdatePitch", id |-> id, pitch |-> pitch]
UpdatePressureMsg(id, pressure) == [type |-> "UpdatePressure", id |-> id, pressure |-> pressure]
StopMsg(id) == [type |-> "Stop", id |-> id]
DamperPedalMsg(pressure) == [type |-> "DamperPedal", pressure |-> pressure]
PitchBendMsg(bend_level) == [type |-> "PitchBend", bend_level |-> bend_level]
ControlMsg(control, value) == [type |-> "Control", control |-> control, value |-> value]

\* ------------------------------------------------------- process_message
Max(a, b) == IF a >= b THEN a ELSE b
Min(a, b) == IF a <= b THEN a ELSE b

\* f64::cbrt on fixed-point x/Scale, exact for the cubes r^3/Scale.
Cbrt(x) == (Scale \div 8) * (CHOOSE r \in 0..8 : r * r * r = x)

\* x^3 on fixed-point x/Scale, rounded down.
Cube(x) == (x * x * x) \div (Scale * Scale)

DamperCurveCubed(pressure) == Cube(Min(Max(pressure, 0), Scale))

\* pressure.max(0.0).min(1.0).cbrt()
DamperCurve(pressure) == Cbrt(Min(Max(pressure, 0), Scale))

LifecycleStartKeepOld(s, id, waveform) ==
    [s EXCEPT !.playing = InsertKeepOld(s.playing, Stable(id), waveform)]

LifecycleStart(s, id, waveform) ==
    [s EXCEPT !.playing = Insert(s.playing, Stable(id), waveform)]

LifecycleUpdatePitchAnyKey(s, id, pitch) ==
    [s EXCEPT !.playing =
        {[key |-> e.key, voice |-> [e.voice EXCEPT !.pitch = pitch]] : e \in s.playing}]

LifecycleUpdatePitch(s, id, pitch) ==
    IF ContainsKey(s.playing, Stable(id))
    THEN [s EXCEPT !.playing =
            Insert(s.playing, Stable(id),
                   [Get(s.playing, Stable(id)) EXCEPT !.pitch = pitch])]
    ELSE s

LifecycleUpdatePressureAnyKey(s, id, pressure) ==
    [s EXCEPT !.playing =
        {[key |-> e.key, voice |-> [e.voice EXCEPT !.pressure = pressure]] : e \in s.playing}]

LifecycleUpdatePressure(s, id, pressure) ==
    IF ContainsKey(s.playing, Stable(id))
    THEN [s EXCEPT !.playing =
            Insert(s.playing, Stable(id),
                   [Get(s.playing, Stable(id)) EXCEPT !.pressure = pressure])]
    ELSE s

LifecycleStopSameFadeId(s, id) ==
    IF ContainsKey(s.playing, Stable(id))
    THEN [s EXCEPT !.playing =
            Insert(Remove(s.playing, Stable(id)), Fading(s.last_id),
                   SetFade(Get(s.playing, Stable(id)), s.damper_pedal_pressure))]
    ELSE s

LifecycleStopKeepStable(s, id) ==
    IF ContainsKey(s.playing, Stable(id))
    THEN [s EXCEPT !.playing =
            Insert(s.playing, Fading(s.last_id),
                   SetFade(Get(s.playing, Stable(id)), s.damper_pedal_pressure)),
                   !.last_id = s.last_id + 1]
    ELSE s

LifecycleStopNoFade(s, id) ==
    IF ContainsKey(s.playing, Stable(id))
    THEN [s EXCEPT !.playing =
            Insert(Remove(s.playing, Stable(id)), Fading(s.last_id),
                   Get(s.playing, Stable(id))),
                   !.last_id = s.last_id + 1]
    ELSE s

LifecycleStop(s, id) ==
    IF ContainsKey(s.playing, Stable(id))
    THEN [s EXCEPT !.playing =
            Insert(Remove(s.playing, Stable(id)), Fading(s.last_id),
                   SetFade(Get(s.playing, Stable(id)), s.damper_pedal_pressure)),
                   !.last_id = s.last_id + 1]
    ELSE s

DamperPedalStoreOnly(s, pressure) ==
    [s EXCEPT !.damper_pedal_pressure = DamperCurve(pressure)]

DamperPedal(s, pressure) ==
    LET curve == DamperCurve(pressure) IN
    [s EXCEPT !.damper_pedal_pressure = curve,
              !.playing = {IF IsFading(e.key)
                           THEN [key |-> e.key, voice |-> SetFade(e.voice, curve)]
                           ELSE e : e \in s.playing}]

\* pitch_bend is kept as the bend value v: the ratio pitch_wheel_sensivity^(v/8192)
PitchBend(s, bend_level) == [s EXCEPT !.pitch_bend = bend_level]

\* ControlStorage::write
Control(s, control, value) ==
    [s EXCEPT !.storage = [c \in (DOMAIN s.storage) \cup {control} |->
                              IF c = control THEN value ELSE s.storage[c]]]

ProcessMessage(s, m) ==
    CASE m.type = "Start" -> LifecycleStart(s, m.id, m.waveform)
      [] m.type = "UpdatePitch" -> LifecycleUpdatePitch(s, m.id, m.pitch)
      [] m.type = "UpdatePressure" -> LifecycleUpdatePressure(s, m.id, m.pressure)
      [] m.type = "Stop" -> LifecycleStop(s, m.id)
      [] m.type = "DamperPedal" -> DamperPedal(s, m.pressure)
      [] m.type = "PitchBend" -> PitchBend(s, m.bend_level)
      [] m.type = "Control" -> Control(s, m.control, m.value)

\* ----------------------------------------------------------------- Init
\* nothing outside the synth has been called
Off == [pc |-> "off"]

AppIdle ==
    /\ expr = Off
    /\ startup = Off
    /\ midi = Off
    /\ model = Off
    /\ search = Off
    /\ backend = Off

Init ==
    /\ queue = <<>>
    /\ state = [playing |-> {}, storage |-> <<>>, damper_pedal_pressure |-> 0,
                pitch_bend |-> 0, last_id |-> 0]
    /\ pc = "idle"
    /\ sent = 0
    /\ lifecycle = [id \in SourceIds |-> "Idle"]
    /\ buffer = [host |-> 0, left |-> 0, right |-> 0]
    /\ heard = <<>>
    /\ frac = [called |-> FALSE]
    /\ AppIdle

\* the synth as create returns it, and no call of nearest_fraction
SynthIdle ==
    /\ queue = <<>>
    /\ state = [playing |-> {}, storage |-> <<>>, damper_pedal_pressure |-> 0,
                pitch_bend |-> 0, last_id |-> 0]
    /\ pc = "idle"
    /\ sent = 0
    /\ lifecycle = [id \in SourceIds |-> "Idle"]
    /\ buffer = [host |-> 0, left |-> 0, right |-> 0]
    /\ heard = <<>>
    /\ frac = [called |-> FALSE]

\* ------------------------------------------------- control thread (backend)
\* a backend call that sends the given messages, in order; seq is the serial
\* of the call, carried along so that the order of submission can be told
Send(messages) ==
    /\ sent < MaxSends
    /\ sent' = sent + 1
    /\ queue' = queue \o [i \in 1..Len(messages) |-> ("seq" :> sent) @@ messages[i]]
    /\ UNCHANGED <<state, pc, lifecycle, observed>>

StartFrom(ids) ==
    \E id \in ids, pitch \in StartPitches :
        Send(<<StartMsg(id, CreateWaveform(sent, pitch))>>)

BackendStart == StartFrom(SourceIds)

BackendUpdatePitch ==
    \E id \in SourceIds, pitch \in UpdatePitches :
        Send(<<UpdatePitchMsg(id, pitch)>>)

BackendUpdatePressure ==
    \E id \in SourceIds, pressure \in KeyPressures :
        Send(<<UpdatePressureMsg(id, pressure)>>)

StopFrom(ids) ==
    \E id \in ids :
        Send(<<StopMsg(id)>>)

BackendStop == StopFrom(SourceIds)

\* control_change for the damper controller number (the other controllers only
\* store their value through send_control)
BackendControlChange ==
    \E controller \in Controllers, value \in DamperValues :
        Send(IF controller = DamperCcn
             THEN <<DamperPedalMsg(value), ControlMsg("Damper", value)>>
             ELSE <<>>)

BackendPitchBend ==
    \E value \in BendValues :
        Send(<<PitchBendMsg(value)>>)

\* ---------------------------------------------- audio thread (WaveformSynth)
WriteBegin ==
    /\ pc = "idle"
    /\ pc' = "drain"
    /\ UNCHANGED <<queue, state, sent, lifecycle, observed>>

WriteDrainNewestFirst ==
    /\ pc = "drain"
    /\ queue # <<>>
    /\ queue' = SubSeq(queue, 1, Len(queue) - 1)
    /\ state' = ProcessMessage(state, queue[Len(queue)])
    /\ lifecycle' = IF queue[Len(queue)].type \in {"Start", "Stop"}
                    THEN [lifecycle EXCEPT ![queue[Len(queue)].id] = queue[Len(queue)].type]
                    ELSE lifecycle
    /\ UNCHANGED <<pc, sent, observed>>

WriteDrainLossy ==
    /\ pc = "drain"
    /\ queue # <<>>
    /\ queue' = IF Len(queue) > 1 THEN Tail(Tail(queue)) ELSE Tail(queue)
    /\ state' = ProcessMessage(state, Head(queue))
    /\ lifecycle' = IF Head(queue).type \in {"Start", "Stop"}
                    THEN [lifecycle EXCEPT ![Head(queue).id] = Head(queue).type]
                    ELSE lifecycle
    /\ UNCHANGED <<pc, sent, observed>>

\* one iteration of `for message in self.messages.try_iter()`
WriteDrain ==
    /\ pc = "drain"
    /\ queue # <<>>
    /\ queue' = Tail(queue)
    /\ state' = ProcessMessage(state, Head(queue))
    /\ lifecycle' = IF Head(queue).type \in {"Start", "Stop"}
                    THEN [lifecycle EXCEPT ![Head(queue).id] = Head(queue).type]
                    ELSE lifecycle
    /\ UNCHANGED <<pc, sent, observed>>

\* f64::NAN, a value outside the range of the amplitudes and samples
NaN == -Scale

\* a < b on f64: false when either side is NaN
Lt(a, b) == a # NaN /\ b # NaN /\ a < b

RetainedEvictLate(playing) == {e \in playing : ~(e.voice.curr_amplitude <= Threshold)}

RetainedKeepAll(playing) == playing

\* the entries playing.retain keeps
Retained(playing) == {e \in playing : ~Lt(e.voice.curr_amplitude, Threshold)}

\* the "Fadeout" template of every built-in envelope: the fade-out of a
\* released voice runs at full rate with the damper pedal up and not at all
\* with the pedal fully down
FadeoutRate(damper) == Scale - damper

\* Magnetron::write: the envelope moves curr_amplitude; a released voice only
\* decays, and one whose fade-out does not run keeps its amplitude.
WriteAmplitudes(voice) ==
    IF voice.fade = NoFade
    THEN AmpValues
    ELSE IF FadeoutRate(voice.fade) = 0
    THEN {voice.curr_amplitude}
    ELSE {a \in AmpValues : a <= voice.curr_amplitude}

RenderedBendAll(e, pitch_bend, a) ==
    [key |-> e.key,
     voice |-> [e.voice EXCEPT !.pitch_bend = pitch_bend, !.curr_amplitude = a]]

\* the voice as the retain closure leaves it, for a new amplitude a
Rendered(e, pitch_bend, a) ==
    [key |-> e.key,
     voice |-> [e.voice EXCEPT !.pitch_bend = IF IsStable(e.key) THEN pitch_bend ELSE @,
                               !.curr_amplitude = a]]

WriteRenderEarly ==
    /\ pc = "drain"
    /\ \E amp \in [Retained(state.playing) -> AmpValues] :
        /\ \A e \in Retained(state.playing) : amp[e] \in WriteAmplitudes(e.voice)
        /\ state' = [state EXCEPT !.playing =
                        {Rendered(e, state.pitch_bend, amp[e]) : e \in Retained(state.playing)}]
    /\ pc' = "idle"
    /\ UNCHANGED <<queue, sent, lifecycle, observed>>

\* try_iter is exhausted: the rest of write
WriteRender ==
    /\ pc = "drain"
    /\ queue = <<>>
    /\ \E amp \in [Retained(state.playing) -> AmpValues] :
        /\ \A e \in Retained(state.playing) : amp[e] \in WriteAmplitudes(e.voice)
        /\ state' = [state EXCEPT !.playing =
                        {Rendered(e, state.pitch_bend, amp[e]) : e \in Retained(state.playing)}]
    /\ pc' = "idle"
    /\ UNCHANGED <<queue, sent, lifecycle, observed>>

Next ==
    \/ BackendStart
    \/ BackendUpdatePitch
    \/ BackendUpdatePressure
    \/ BackendStop
    \/ BackendControlChange
    \/ BackendPitchBend
    \/ WriteBegin
    \/ WriteDrain
    \/ WriteRender

Spec == Init /\ [][Next]_vars

\* ------------------------------------------------ keys and the damper pedal
\* The control thread only starts and stops keys and moves the damper pedal.
NextKeys ==
    \/ BackendStart
    \/ BackendStop
    \/ BackendControlChange
    \/ WriteBegin
    \/ WriteDrain
    \/ WriteRender

SpecKeys == Init /\ [][NextKeys]_vars

\* One key, pressed and released again and again, and the damper pedal.
SustainKey == 1

KeyStart == StartFrom({SustainKey})

KeyStop == StopFrom({SustainKey})

NextSustain ==
    \/ KeyStart
    \/ KeyStop
    \/ BackendControlChange
    \/ WriteBegin
    \/ WriteDrain
    \/ WriteRender

\* a render call in which every released voice whose fade-out runs has come
\* to the end of its release
ReleaseDecay ==
    /\ WriteRender
    /\ \A e \in state'.playing :
        (e.voice.fade # NoFade /\ FadeoutRate(e.voice.fade) > 0)
            => Lt(e.voice.curr_amplitude, Threshold)

\* The audio host calls write for block after block, write runs to its end,
\* and a release of finite length ends after finitely many blocks.
SpecSustain ==
    /\ Init
    /\ [][NextSustain]_vars
    /\ WF_vars(WriteBegin)
    /\ WF_vars(WriteDrain)
    /\ SF_vars(ReleaseDecay)

TypeOK ==
    /\ pc \in {"idle", "drain"}
    /\ Len(queue) <= 2 * MaxSends
    /\ sent \in 0..MaxSends
    /\ state.last_id \in 0..MaxSends
    /\ state.damper_pedal_pressure \in 0..Scale

\* ------------------------------------------------------- steps of a run
\* the step in which process_message handles a message of the given type
Processing(type) ==
    /\ pc = "drain"
    /\ queue # <<>>
    /\ queue' = Tail(queue)
    /\ Head(queue).type = type

\* the step in which write retains and renders the voices
Rendering ==
    /\ pc = "drain"
    /\ pc' = "idle"

StableEntries(playing) == {e \in playing : IsStable(e.key)}
FadingEntries(playing) == {e \in playing : IsFading(e.key)}

\* C1: in every reachable state the voice table holds at most one voice
\* keyed Stable(id) for each source id.
C1_OneStablePerSource ==
    \A id \in SourceIds :
        Cardinality({e \in state.playing : e.key = Stable(id)}) <= 1

\* a second Start for source 1 has replaced the first: the voice created
\* second is the only voice and no other source was ever started
C1_Witness ==
    /\ queue = <<>>
    /\ lifecycle[2] = "Idle"
    /\ \E e \in state.playing : e.key = Stable(1) /\ e.voice.uid = 1

\* C2: once Start(id) and then Stop(id) were processed, with no later Start
\* for that id, there is no Stable voice for that id.
C2_StopLeavesNoStable ==
    \A id \in SourceIds :
        lifecycle[id] = "Stop" => ~ContainsKey(state.playing, Stable(id))

\* Stop(1) was the last Start/Stop of source 1 and its voice is fading
C2_Witness ==
    /\ lifecycle[1] = "Stop"
    /\ lifecycle[2] = "Idle"
    /\ FadingEntries(state.playing) # {}

\* C3: processing Start(id) while Stable(id) exists has the effect of
\* processing Stop(id) and then Start(id): the old voice is kept as Fading.
C3_RestartIsStopStart ==
    [][(Processing("Start") /\ ContainsKey(state.playing, Stable(Head(queue).id)))
        => state' = ProcessMessage(ProcessMessage(state, StopMsg(Head(queue).id)),
                                   Head(queue))]_vars

\* C4: Stop(id) with Stable(id) present releases the voice with the stored
\* damper pressure, re-keys it Fading(last_id) and increments last_id;
\* with Stable(id) absent it changes nothing.
C4_StopEffect ==
    [][Processing("Stop") =>
        LET id == Head(queue).id
            present == {e \in state.playing : e.key = Stable(id)}
        IN  IF present # {}
            THEN /\ state'.playing =
                        (state.playing \ present) \cup
                        {[key |-> Fading(state.last_id),
                          voice |-> [e.voice EXCEPT !.fade = state.damper_pedal_pressure]]
                            : e \in present}
                 /\ state'.last_id = state.last_id + 1
                 /\ state'.damper_pedal_pressure = state.damper_pedal_pressure
                 /\ state'.pitch_bend = state.pitch_bend
                 /\ state'.storage = state.storage
            ELSE state' = state]_vars

\* the first Stop was processed while the damper pedal was pressed: its voice
\* is keyed Fading(0) and released with that pressure
C4_Witness ==
    /\ state.last_id = 1
    /\ state.damper_pedal_pressure > 0
    /\ \E e \in state.playing :
        e.key = Fading(0) /\ e.voice.fade = state.damper_pedal_pressure

\* C5: UpdatePitch(id) and UpdatePressure(id) set the pitch or pressure of
\* the voice keyed Stable(id) when it exists and change nothing else: no
\* Fading voice, no voice of another id, no key.
C5_UpdateFrame ==
    [][(Processing("UpdatePitch") \/ Processing("UpdatePressure")) =>
        LET m == Head(queue)
            updated(v) == IF m.type = "UpdatePitch"
                          THEN [v EXCEPT !.pitch = m.pitch]
                          ELSE [v EXCEPT !.pressure = m.pressure]
        IN  /\ state'.playing =
                {IF e.key = Stable(m.id)
                 THEN [key |-> e.key, voice |-> updated(e.voice)]
                 ELSE e : e \in state.playing}
            /\ Keys(state'.playing) = Keys(state.playing)
            /\ state'.last_id = state.last_id
            /\ state'.damper_pedal_pressure = state.damper_pedal_pressure
            /\ state'.pitch_bend = state.pitch_bend
            /\ state'.storage = state.storage]_vars

\* the Stable voice of source 1 carries the updated pitch and pressure while
\* the voice of source 2 keeps the ones it started with
C5_Witness ==
    /\ \E e \in state.playing :
        e.key = Stable(1) /\ e.voice.pitch \in UpdatePitches /\ e.voice.pressure \in KeyPressures
    /\ \E e \in state.playing :
        e.key = Stable(2) /\ e.voice.pitch \in StartPitches /\ e.voice.pressure = 0

\* C6: a voice keyed Fading is never keyed Stable again, and no Start,
\* UpdatePitch, UpdatePressure or Stop changes or removes it.
C6_FadingIsOneWay ==
    [][\A e \in FadingEntries(state.playing) :
        /\ \A e2 \in state'.playing : e2.voice.uid = e.voice.uid => IsFading(e2.key)
        /\ (Processing("Start") \/ Processing("UpdatePitch")
            \/ Processing("UpdatePressure") \/ Processing("Stop"))
           => e \in state'.playing]_vars

\* source 1 was released and started again; the new Stable voice took a new
\* pressure while the Fading voice kept its own
C6_Witness ==
    /\ lifecycle[2] = "Idle"
    /\ \E e \in state.playing :
        e.key = Fading(0) /\ e.voice.uid = 0 /\ e.voice.pressure = 0
    /\ \E e \in state.playing :
        e.key = Stable(1) /\ e.voice.uid = 2 /\ e.voice.pressure \in KeyPressures

\* C7: every Stop of a sounding source adds one Fading voice under a fade
\* id no voice in the table uses, and keeps every Fading voice already there.
C7_StopAddsFadingVoice ==
    [][Processing("Stop") =>
        /\ \A e \in FadingEntries(state.playing) : e.key[2] < state.last_id
        /\ FadingEntries(state.playing) \subseteq FadingEntries(state'.playing)
        /\ ContainsKey(state.playing, Stable(Head(queue).id))
           => Cardinality(FadingEntries(state'.playing))
                = Cardinality(FadingEntries(state.playing)) + 1]_vars

\* source 1 was started and stopped twice; both tails are in the table
C7_Witness ==
    /\ lifecycle[2] = "Idle"
    /\ lifecycle[1] = "Stop"
    /\ \E e1, e2 \in FadingEntries(state.playing) :
        e1.key = Fading(0) /\ e2.key = Fading(1) /\ e1.voice.uid # e2.voice.uid

\* C8 as stated: between a processed Start(id) and the next processed
\* Stop(id), Stable(id) is in the voice table.
C8_StableUntilStop ==
    \A id \in SourceIds :
        lifecycle[id] = "Start" => ContainsKey(state.playing, Stable(id))

\* C8 amended: Stable(id) leaves the voice table only when Stop(id) is
\* processed or when a render call finds its curr_amplitude below 0.0001.
C8_StableLeavesByStopOrEviction ==
    [][\A id \in SourceIds :
        (ContainsKey(state.playing, Stable(id)) /\ ~ContainsKey(state'.playing, Stable(id)))
        => \/ Processing("Stop") /\ Head(queue).id = id
           \/ Rendering /\ Get(state.playing, Stable(id)).curr_amplitude < Threshold]_vars

\* a render call has evicted the voice of source 1, which was never stopped
C8_Witness ==
    /\ lifecycle[1] = "Start"
    /\ pc = "idle"
    /\ ~ContainsKey(state.playing, Stable(1))

\* C9: every Fading voice has the release computed from the stored damper
\* pressure, and no Stable voice has a release.
C9_FadeFollowsDamper ==
    /\ \A e \in FadingEntries(state.playing) : e.voice.fade = state.damper_pedal_pressure
    /\ \A e \in StableEntries(state.playing) : e.voice.fade = NoFade

\* a voice released with the pedal up has taken the pressure of a later
\* DamperPedal message, next to a Stable voice
C9_Witness ==
    /\ state.damper_pedal_pressure = Scale
    /\ "Damper" \in DOMAIN state.storage
    /\ StableEntries(state.playing) # {}
    /\ \E e \in FadingEntries(state.playing) : e.voice.fade = Scale

\* C10 as stated: after DamperPedal{pressure} with pressure in [0,1] the
\* stored damper pressure is pressure^3.
C10_StoresCube ==
    [][(Processing("DamperPedal") /\ Head(queue).pressure \in 0..Scale)
        => state'.damper_pedal_pressure = Cube(Head(queue).pressure)]_vars

\* C10 amended: after DamperPedal{pressure} with pressure in [0,1] the
\* stored damper pressure is the cube root of pressure: its cube is pressure.
C10_StoresCubeRoot ==
    [][(Processing("DamperPedal") /\ Head(queue).pressure \in 0..Scale)
        => LET d == state'.damper_pedal_pressure
           IN  d * d * d = Head(queue).pressure * Scale * Scale]_vars

\* pressure 1/8 was processed: the stored pressure is 1/2
C10_Witness ==
    /\ state.damper_pedal_pressure = Scale \div 2
    /\ "Damper" \in DOMAIN state.storage
    /\ state.storage["Damper"] = Scale \div 8
\* the voice created by the backend call of the given serial is in the table
InTable(uid) == \E e \in state.playing : e.voice.uid = uid

LifecycleTypes == {"Start", "UpdatePitch", "UpdatePressure", "Stop"}

\* the sequence without its i-th element
RemoveAt(q, i) == SubSeq(q, 1, i - 1) \o SubSeq(q, i + 1, Len(q))

\* the step in which a message leaves the channel
Receiving == Len(queue') < Len(queue)

\* C12: when a render call retains and renders the voices, no message is
\* pending: every message enqueued before the call began (and every one
\* enqueued while it drained) has been applied to the state it renders.
C12_DrainBeforeRender ==
    [][Rendering => (queue = <<>> /\ queue' = <<>>)]_vars

\* write has drained the channel, applying Start for source 2 and Stop for
\* source 1, and is about to render
C12_Witness ==
    /\ pc = "drain"
    /\ queue = <<>>
    /\ lifecycle[1] = "Stop"
    /\ lifecycle[2] = "Start"

\* C13: the message that leaves the channel is applied to the state, and no
\* lifecycle message for the same source id that was submitted before it is
\* still pending; messages submitted later carry a later serial.
C13_SubmissionOrder ==
    /\ [][Receiving =>
            \E i \in 1..Len(queue) :
                /\ queue' = RemoveAt(queue, i)
                /\ state' = ProcessMessage(state, queue[i])
                /\ \A j \in 1..Len(queue) :
                        (j # i /\ queue[i].type \in LifecycleTypes
                               /\ queue[j].type \in LifecycleTypes
                               /\ queue[j].id = queue[i].id)
                            => queue[i].seq < queue[j].seq]_vars
    /\ [](\A i \in 1..Len(queue) : queue[i].seq < sent)

\* inside a render call, Start(1) was applied, and Stop(1) and a second
\* Start(1), submitted in that order, are pending
C13_Witness ==
    /\ pc = "drain"
    /\ Len(queue) = 2
    /\ queue[1].type = "Stop" /\ queue[1].id = 1
    /\ queue[2].type = "Start" /\ queue[2].id = 1
    /\ ContainsKey(state.playing, Stable(1))

\* C14: the channel changes only by a send appending the messages of one
\* call or by write removing one message, which it applies; the state
\* changes only by that or by rendering; no message is in the channel twice;
\* and a render call ends with every message applied that was submitted
\* before it rendered.
C14_ExactlyOnce ==
    /\ [][
         /\ (queue' # queue) =>
              (\/ /\ Len(queue') > Len(queue)
                  /\ SubSeq(queue', 1, Len(queue)) = queue
                  /\ \A i \in (Len(queue) + 1)..Len(queue') : queue'[i].seq = sent
                  /\ sent' = sent + 1
                  /\ state' = state
               \/ /\ Len(queue') = Len(queue) - 1
                  /\ \E i \in 1..Len(queue) :
                       /\ queue' = RemoveAt(queue, i)
                       /\ state' = ProcessMessage(state, queue[i]))
         /\ (state' # state) => (Rendering \/ Receiving)
         /\ Rendering => (queue = <<>> /\ UNCHANGED <<queue, sent>>)
       ]_vars
    /\ [](\A i, j \in 1..Len(queue) :
            (queue[i].seq = queue[j].seq /\ queue[i].type = queue[j].type) => i = j)

\* the backend has made all its calls; write has applied the messages of
\* the first three in order and the message of the fourth is pending
C14_Witness ==
    /\ pc = "drain"
    /\ sent = MaxSends
    /\ Len(queue) = 1
    /\ queue[1].seq = MaxSends - 1
    /\ queue[1].type = "Stop" /\ queue[1].id = 2
    /\ \E e \in state.playing : e.key = Stable(2) /\ e.voice.uid = 1
    /\ \E e \in state.playing : e.key = Fading(0) /\ e.voice.uid = 0

\* C15 as stated: when a render call returns, the voice table holds no voice
\* whose curr_amplitude is below 1e-4.
C15_NoQuietVoiceAfterRender ==
    [][Rendering =>
        \A e \in state'.playing : ~Lt(e.voice.curr_amplitude, Threshold)]_vars

\* C15: a render call removes exactly the voices whose curr_amplitude was
\* below 1e-4 when the call reached them, and adds none.
C15_QuietVoicesEvictedByNextRender ==
    [][Rendering =>
        /\ \A e \in state.playing :
            Lt(e.voice.curr_amplitude, Threshold) <=> ~ContainsKey(state'.playing, e.key)
        /\ Keys(state'.playing) \subseteq Keys(state.playing)]_vars

\* a render call has returned and left a voice in the table whose amplitude
\* fell below 1e-4 while it was rendered
C15_Witness ==
    /\ pc = "idle"
    /\ queue = <<>>
    /\ \E e \in state.playing : Lt(e.voice.curr_amplitude, Threshold)

\* ------------------------------------------------- NaN in the render call
\* The specification SpecNaN: keys are started and stopped, and a voice may
\* produce NaN in any block in which it is rendered.
HostSamples == {0, 10}

\* a + b and a / d on f64: NaN when an operand is NaN
Add(a, b) == IF a = NaN \/ b = NaN THEN NaN ELSE a + b

Div(a, d) == IF a = NaN THEN NaN ELSE a \div d

\* Magnetron::write with a voice that may produce NaN
WriteAmplitudesNaN(voice) == WriteAmplitudes(voice) \cup {NaN}

\* the sample a voice adds to the mixdown buffer, in units of 1e-5: NaN for a
\* voice that produced NaN
Output(voice) ==
    IF voice.curr_amplitude = NaN THEN NaN ELSE 10 * voice.curr_amplitude

\* buffers.total() at one sample index: the sum of the rendered voices
RECURSIVE Total(_)
Total(rendered) ==
    IF rendered = {}
    THEN 0
    ELSE LET e == CHOOSE x \in rendered : TRUE
         IN  Add(Output(e.voice), Total(rendered \ {e}))

\* *left += out / 10.0
Accumulate(sample, out) == Add(sample, Div(out, 10))

\* write from the end of try_iter on, with the host's frame
WriteRenderMix ==
    /\ pc = "drain"
    /\ queue = <<>>
    /\ \E amp \in [Retained(state.playing) -> AmpValues \cup {NaN}], host \in HostSamples :
        LET rendered == {Rendered(e, state.pitch_bend, amp[e]) : e \in Retained(state.playing)}
        IN  /\ \A e \in Retained(state.playing) : amp[e] \in WriteAmplitudesNaN(e.voice)
            /\ state' = [state EXCEPT !.playing = rendered]
            /\ buffer' = [host |-> host,
                          left |-> Accumulate(host, Total(rendered)),
                          right |-> Accumulate(host, Total(rendered))]
    /\ pc' = "idle"
    /\ UNCHANGED <<queue, sent, lifecycle, heard, frac, app>>

NextNaN ==
    \/ BackendStart
    \/ BackendStop
    \/ WriteBegin
    \/ WriteDrain
    \/ WriteRenderMix

SpecNaN == Init /\ [][NextNaN]_vars

\* C16: a voice that produces NaN is removed from the voice table in the
\* render call in which the NaN appears: when a render call returns, no voice
\* in the table has a NaN curr_amplitude.
C16_NaNVoiceRetired ==
    [][Rendering =>
        \A e \in state'.playing : e.voice.curr_amplitude # NaN]_vars

\* C17: a render call never turns a host output sample that was not NaN into
\* NaN.
C17_HostSampleStaysNumber ==
    buffer.host # NaN => (buffer.left # NaN /\ buffer.right # NaN)

\* C18: a render call gives every Stable voice it renders the global pitch
\* bend; no step changes the pitch_bend of a voice that is Fading, and a
\* PitchBend message changes no voice at all.
C18_BendOnlyForStable ==
    [][/\ Rendering =>
            \A e \in StableEntries(state'.playing) : e.voice.pitch_bend = state.pitch_bend
       /\ \A e \in FadingEntries(state.playing) :
            \A f \in state'.playing :
                f.voice.uid = e.voice.uid => f.voice.pitch_bend = e.voice.pitch_bend
       /\ Processing("PitchBend") => state'.playing = state.playing]_vars

\* after a PitchBend message a render call has returned: the Stable voice
\* has the new bend, the voice released before the message has its old one
C18_Witness ==
    /\ pc = "idle"
    /\ state.pitch_bend # 0
    /\ \E e \in StableEntries(state.playing) : e.voice.pitch_bend = state.pitch_bend
    /\ \E e \in FadingEntries(state.playing) :
        e.voice.pitch_bend = 0 /\ ~Lt(e.voice.curr_amplitude, Threshold)

\* ------------------------------------------------------- dispatch ordering
\* The specification SpecDispatch: the control thread submits Start,
\* UpdatePitch and Stop for one key, in that order, while the audio thread
\* renders block after block; heard records the pitch of the key's voice in
\* every block that renders it.
DispatchStart == sent = 0 /\ StartFrom({SustainKey})

DispatchUpdatePitch ==
    /\ sent = 1
    /\ \E pitch \in UpdatePitches : Send(<<UpdatePitchMsg(SustainKey, pitch)>>)

DispatchStop == sent = 2 /\ StopFrom({SustainKey})

\* the record of pitches with one more block; a pitch heard in more than two
\* blocks in a row is recorded twice
Hear(h, pitch) ==
    IF Len(h) >= 2 /\ h[Len(h)] = pitch /\ h[Len(h) - 1] = pitch
    THEN h
    ELSE Append(h, pitch)

RECURSIVE HearAll(_, _)
HearAll(h, entries) ==
    IF entries = {}
    THEN h
    ELSE LET e == CHOOSE x \in entries : TRUE
         IN  HearAll(Hear(h, e.voice.pitch), entries \ {e})

\* write from the end of try_iter on, with the pitches it renders
WriteRenderHeard ==
    /\ pc = "drain"
    /\ queue = <<>>
    /\ \E amp \in [Retained(state.playing) -> AmpValues] :
        /\ \A e \in Retained(state.playing) : amp[e] \in WriteAmplitudes(e.voice)
        /\ state' = [state EXCEPT !.playing =
                        {Rendered(e, state.pitch_bend, amp[e]) : e \in Retained(state.playing)}]
    /\ heard' = HearAll(heard, Retained(state.playing))
    /\ pc' = "idle"
    /\ UNCHANGED <<queue, sent, lifecycle, buffer, frac, app>>

NextDispatch ==
    \/ DispatchStart
    \/ DispatchUpdatePitch
    \/ DispatchStop
    \/ WriteBegin
    \/ WriteDrain
    \/ WriteRenderHeard

SpecDispatch == Init /\ [][NextDispatch]_vars

\* C19 as stated: once Start, UpdatePitch and Stop were applied there is at
\* most one voice, none of them Stable, and the voice was rendered with the
\* start pitch in exactly one block and with the updated pitch after it.
C19_HeardStartPitchOnce ==
    (lifecycle[SustainKey] = "Stop" /\ heard # <<>>) =>
        /\ Cardinality(state.playing) <= 1
        /\ StableEntries(state.playing) = {}
        /\ heard[1] \in StartPitches
        /\ Len(heard) >= 2 => heard[2] \in UpdatePitches

\* C19: there is never more than one voice; no block renders the start pitch
\* after a block that rendered the updated pitch; nothing is rendered before
\* Start is applied; once Stop is applied there is no Stable voice; and once
\* all three messages are applied the voice, while it lasts, is Fading and
\* has the updated pitch.
C19_DispatchOrder ==
    /\ Cardinality(state.playing) <= 1
    /\ \A i \in 1..Len(heard) : heard[i] \in StartPitches \cup UpdatePitches
    /\ \A i, j \in 1..Len(heard) :
        (i < j /\ heard[i] \in UpdatePitches) => heard[j] \in UpdatePitches
    /\ lifecycle[SustainKey] = "Idle" => heard = <<>>
    /\ lifecycle[SustainKey] = "Stop" => StableEntries(state.playing) = {}
    /\ (sent = 3 /\ queue = <<>>) =>
        \A e \in state.playing : IsFading(e.key) /\ e.voice.pitch \in UpdatePitches

\* the three messages were applied one render call after the other: the
\* voice was rendered with the start pitch, then with the updated pitch
\* while Stable, and is now Fading
C19_Witness ==
    /\ lifecycle[SustainKey] = "Stop"
    /\ Len(heard) = 3
    /\ heard[1] \in StartPitches
    /\ heard[2] \in UpdatePitches
    /\ heard[3] \in UpdatePitches
    /\ FadingEntries(state.playing) # {}

\* ------------------------------------------------ Ratio::nearest_fraction
\* (src/src/pitch.rs) A Ratio is a pair <<a, b>> for the float a / b, so that
\* the comparisons of the search are exact; <<1, 0>> is f64::INFINITY.
MaxTerm == 11
MaxCandidate == 16

U16Max == 65535

InputTerms == 1..MaxTerm
OddLimits == {1, 3, 5, 7, 9}

\* self < other on Ratio (PartialOrd on the float)
RatioLess(x, y) == x[1] * y[2] < y[1] * x[2]

\* Ratio::deviation_from
DeviationFrom(x, reference) == <<x[1] * reference[2], x[2] * reference[1]>>

\* Ratio::abs, for a float that is not negative
Abs(x) == IF x[1] < x[2] THEN <<x[2], x[1]>> ELSE x

RECURSIVE Pow2(_)
Pow2(k) == IF k = 0 THEN 1 ELSE 2 * Pow2(k - 1)

\* math::odd_factors_u16: the number without its factors 2
RECURSIVE OddFactorsU16(_)
OddFactorsU16(n) == IF n > 0 /\ n % 2 = 0 THEN OddFactorsU16(n \div 2) ELSE n

\* ratio.as_octaves().floor() for the ratio n / d
NumOctaves(n, d) ==
    CHOOSE k \in (0 - MaxTerm)..MaxTerm :
        IF k >= 0
        THEN d * Pow2(k) <= n /\ n < d * Pow2(k + 1)
        ELSE d <= n * Pow2(0 - k) /\ n * Pow2(0 - k) < 2 * d

\* ratio.deviation_from(Ratio::from_octaves(num_octaves))
TargetRatio(n, d) ==
    LET k == NumOctaves(n, d)
    IN  IF k >= 0 THEN <<n, d * Pow2(k)>> ELSE <<n * Pow2(0 - k), d>>

\* the while loop of for_ratio, from one evaluation of its condition on
RECURSIVE ForRatioLoop(_, _, _, _, _, _)
ForRatioLoop(target_ratio, odd_limit, left, right, best, best_deviation) ==
    LET mid == <<left[1] + right[1], left[2] + right[2]>>
        odd_factors_numer == OddFactorsU16(mid[1])
        odd_factors_denom == OddFactorsU16(mid[2])
        mid_deviation == DeviationFrom(target_ratio, mid)
        better == /\ odd_factors_numer <= odd_limit
                  /\ odd_factors_denom <= odd_limit
                  /\ RatioLess(Abs(mid_deviation), Abs(best_deviation))
        new_best == IF better THEN mid ELSE best
        new_deviation == IF better THEN mid_deviation ELSE best_deviation
    IN  IF mid[1] > U16Max \/ mid[2] > U16Max
        THEN [best |-> best, deviation |-> best_deviation]
        ELSE IF odd_factors_numer > odd_limit /\ odd_factors_denom > odd_limit
        THEN [best |-> best, deviation |-> best_deviation]
        ELSE IF RatioLess(target_ratio, mid)
        THEN ForRatioLoop(target_ratio, odd_limit, left, mid, new_best, new_deviation)
        ELSE IF RatioLess(mid, target_ratio)
        THEN ForRatioLoop(target_ratio, odd_limit, mid, right, new_best, new_deviation)
        ELSE [best |-> new_best, deviation |-> new_deviation]

\* NearestFraction::for_ratio for the ratio n / d
ForRatio(n, d, odd_limit) ==
    LET found == ForRatioLoop(TargetRatio(n, d), odd_limit,
                              <<0, 1>>, <<1, 0>>, <<0, 0>>, <<1, 0>>)
    IN  [numer |-> found.best[1], denom |-> found.best[2],
         deviation |-> found.deviation, num_octaves |-> NumOctaves(n, d)]

\* The specification SpecFraction: one call of nearest_fraction on a ratio
\* n / d and an odd limit.
InitFraction ==
    /\ queue = <<>>
    /\ state = [playing |-> {}, storage |-> <<>>, damper_pedal_pressure |-> 0,
                pitch_bend |-> 0, last_id |-> 0]
    /\ pc = "idle"
    /\ sent = 0
    /\ lifecycle = [id \in SourceIds |-> "Idle"]
    /\ buffer = [host |-> 0, left |-> 0, right |-> 0]
    /\ heard = <<>>
    /\ \E n \in InputTerms, d \in InputTerms, odd_limit \in OddLimits :
        frac = [called |-> FALSE, n |-> n, d |-> d, odd_limit |-> odd_limit]
    /\ AppIdle

NearestFraction ==
    /\ ~frac.called
    /\ frac' = [called |-> TRUE, n |-> frac.n, d |-> frac.d, odd_limit |-> frac.odd_limit,
                result |-> ForRatio(frac.n, frac.d, frac.odd_limit)]
    /\ UNCHANGED <<queue, state, pc, sent, lifecycle, buffer, heard, app>>

NextFraction == NearestFraction

SpecFraction == InitFraction /\ [][NextFraction]_vars

\* C20: nearest_fraction returns num_octaves = floor(log2 r) and a fraction
\* numer/denom whose odd factors are within the odd limit, and no fraction
\* p/q with odd factors within the limit deviates less from r normalized
\* into one octave.
C20_NearestWithinOddLimit ==
    frac.called =>
        LET target_ratio == TargetRatio(frac.n, frac.d)
            result == frac.result
            deviation == Abs(DeviationFrom(target_ratio, <<result.numer, result.denom>>))
        IN  /\ result.num_octaves = NumOctaves(frac.n, frac.d)
            /\ OddFactorsU16(result.numer) <= frac.odd_limit
            /\ OddFactorsU16(result.denom) <= frac.odd_limit
            /\ \A p \in 1..MaxCandidate, q \in 1..MaxCandidate :
                (OddFactorsU16(p) <= frac.odd_limit /\ OddFactorsU16(q) <= frac.odd_limit)
                    => ~RatioLess(Abs(DeviationFrom(target_ratio, <<p, q>>)), deviation)

\* ------------------------------------------- RatioExpression::from_str
\* (src/src/pitch.rs) An f64 is a pair <<a, b>>: the fraction a / b in lowest
\* terms with b > 0, <<1, 0>> and <<-1, 0>> for the infinities and <<0, 0>>
\* for NaN.  The inputs are chosen so that every root taken is exact.
F64MaxExp == 1024
F64MinExp == -1075

FInf == <<1, 0>>
FNegInf == <<-1, 0>>
FNaN == <<0, 0>>
FZero == <<0, 1>>
FOne == <<1, 1>>

\* f64::is_finite
IsFinite(x) == x[2] # 0

\* x > 0.0 on f64 (false for NaN)
IsPositive(x) == x[1] > 0

Magnitude(n) == IF n < 0 THEN 0 - n ELSE n

RECURSIVE Gcd(_, _)
Gcd(a, b) == IF b = 0 THEN a ELSE Gcd(b, a % b)

\* the f64 of the fraction a / b, b # 0
Float(a, b) ==
    LET g == Gcd(Magnitude(a), Magnitude(b))
    IN  IF b < 0 THEN <<(0 - a) \div g, (0 - b) \div g>> ELSE <<a \div g, b \div g>>

\* numer / denom on finite f64
FDiv(x, y) ==
    IF y[1] # 0 THEN Float(x[1] * y[2], x[2] * y[1])
    ELSE IF x[1] > 0 THEN FInf
    ELSE IF x[1] < 0 THEN FNegInf
    ELSE FNaN

RECURSIVE IntPow(_, _)
IntPow(b, k) == IF k = 0 THEN 1 ELSE b * IntPow(b, k - 1)

\* the q-th root of a natural number that has one
Root(n, q) == CHOOSE r \in 0..n : IntPow(r, q) = n

\* f64::powf for a finite base (IEEE 754 pow)
Powf(base, exponent) ==
    IF exponent = FZero \/ base = FOne THEN FOne
    ELSE IF exponent = FNaN THEN FNaN
    ELSE IF ~IsFinite(exponent)
    THEN LET grows == (Magnitude(base[1]) > base[2]) = (exponent = FInf)
         IN  IF Magnitude(base[1]) = base[2] THEN FOne
             ELSE IF grows THEN FInf ELSE FZero
    ELSE IF base = FZero
    THEN IF exponent[1] > 0 THEN FZero ELSE FInf
    ELSE IF base[1] < 0 /\ exponent[2] # 1 THEN FNaN
    ELSE LET numer == IF exponent[2] = 1 THEN base[1] ELSE Root(base[1], exponent[2])
             denom == IF exponent[2] = 1 THEN base[2] ELSE Root(base[2], exponent[2])
             k == Magnitude(exponent[1])
         IN  IF exponent[1] > 0 THEN Float(IntPow(numer, k), IntPow(denom, k))
             ELSE Float(IntPow(denom, k), IntPow(numer, k))

\* Ratio::from_cents(cents_value).as_float() for whole octaves: exp2 overflows
\* to infinity from F64MaxExp on and underflows to 0 from F64MinExp down
FromCents(cents_value) ==
    LET octaves == cents_value[1] \div (1200 * cents_value[2])
    IN  IF octaves >= F64MaxExp THEN FInf
        ELSE IF octaves <= F64MinExp THEN FZero
        ELSE IF octaves >= 0 THEN Float(Pow2(octaves), 1)
        ELSE Float(1, Pow2(0 - octaves))

Ok(value) == [ok |-> TRUE, value |-> value]
Err(e) == [ok |-> FALSE, err |-> e]

\* format!("Invalid {name} '{s}': {e}")
Invalid(name, e) == <<"Invalid", name>> \o e

\* the float a RatioExpressionVariant stands for
Evaluate(variant) ==
    CASE variant.kind = "Float" -> variant.float_value
      [] variant.kind = "Fraction" -> FDiv(variant.numer, variant.denom)
      [] variant.kind = "IntervalFraction" ->
            Powf(variant.interval, FDiv(variant.numer, variant.denom))
      [] variant.kind = "Cents" -> FromCents(variant.cents_value)

\* RatioExpressionVariant::as_float
AsFloat(variant) ==
    LET as_float == Evaluate(variant)
    IN  IF IsFinite(as_float) THEN Ok(as_float)
        ELSE Err(<<"Evaluates to", as_float>>)

\* as_ratio that admits 0 (a variant of AsRatio)
AsRatioNotNegative(variant) ==
    LET float_value == AsFloat(variant)
    IN  IF ~float_value.ok THEN float_value
        ELSE IF float_value.value[1] >= 0 THEN Ok(float_value.value)
        ELSE Err(<<"Evaluates to", float_value.value, "but should be positive">>)

\* RatioExpressionVariant::as_ratio
AsRatio(variant) ==
    LET float_value == AsFloat(variant)
    IN  IF ~float_value.ok THEN float_value
        ELSE IF IsPositive(float_value.value) THEN Ok(float_value.value)
        ELSE Err(<<"Evaluates to", float_value.value, "but should be positive">>)

\* parse_ratio and parse_ratio_as_float on a string, given by the way
\* split_balanced takes it apart: s.form is "interval" (three parts around
\* ':'), "fraction" (two parts around '/'), "cents" (a part before a final
\* 'c'), "paren" (in parentheses), or "float" (s.parses is what str::parse
\* returns: FALSE for an error)
RECURSIVE ParseRatio(_)
ParseRatio(s) ==
    LET ParseRatioAsFloat(t, name) ==
            LET parsed == ParseRatio(t)
            IN  IF ~parsed.ok THEN Err(Invalid(name, parsed.err))
                ELSE LET float == AsFloat(parsed.value)
                     IN  IF float.ok THEN float ELSE Err(Invalid(name, float.err))
    IN  CASE s.form = "interval" ->
                LET numer == ParseRatioAsFloat(s.numer, "interval numerator")
                    denom == ParseRatioAsFloat(s.denom, "interval denominator")
                    interval == ParseRatioAsFloat(s.interval, "interval")
                IN  IF ~numer.ok THEN numer
                    ELSE IF ~denom.ok THEN denom
                    ELSE IF ~interval.ok THEN interval
                    ELSE Ok([kind |-> "IntervalFraction", numer |-> numer.value,
                             denom |-> denom.value, interval |-> interval.value])
          [] s.form = "fraction" ->
                LET numer == ParseRatioAsFloat(s.numer, "numerator")
                    denom == ParseRatioAsFloat(s.denom, "denominator")
                IN  IF ~numer.ok THEN numer
                    ELSE IF ~denom.ok THEN denom
                    ELSE Ok([kind |-> "Fraction", numer |-> numer.value,
                             denom |-> denom.value])
          [] s.form = "cents" ->
                LET cents_value == ParseRatioAsFloat(s.cents_value, "cents value")
                IN  IF ~cents_value.ok THEN cents_value
                    ELSE Ok([kind |-> "Cents", cents_value |-> cents_value.value])
          [] s.form = "paren" -> ParseRatio(s.inner)
          [] s.form = "float" ->
                IF s.parses THEN Ok([kind |-> "Float", float_value |-> s.float_value])
                ELSE Err(<<"Must be a float, fraction, interval fraction or cents value">>)

\* RatioExpression::from_str
FromStr(s) ==
    LET representation == ParseRatio(s)
    IN  IF ~representation.ok THEN Err(Invalid("expression", representation.err))
        ELSE LET ratio == AsRatio(representation.value)
             IN  IF ~ratio.ok THEN Err(Invalid("expression", ratio.err))
                 ELSE [ok |-> TRUE, ratio |-> ratio.value,
                       representation |-> representation.value]

\* the strings parsed: numbers, words that str::parse takes for inf and NaN,
\* words it rejects, and expressions of them
Literal(x) == [form |-> "float", parses |-> TRUE, float_value |-> x]
Word == [form |-> "float", parses |-> FALSE, float_value |-> FZero]
Fraction(numer, denom) == [form |-> "fraction", numer |-> numer, denom |-> denom]

Numbers == {Literal(Float(n, 1)) : n \in {-4, -1, 0, 1, 2, 4}}
Literals == Numbers \cup {Literal(FInf), Literal(FNaN), Word}
Nested == {Fraction(Literal(FOne), Literal(FZero)),
           Fraction(Literal(FZero), Literal(FZero)),
           [form |-> "paren", inner |-> Fraction(Literal(FOne), Literal(FZero))]}
Intervals == {Literal(Float(n, 1)) : n \in {-16, 0, 1, 16}}
CentsValues == {Literal(Float(1200 * n, 1)) : n \in {-1, 0, 1, 2, F64MaxExp, F64MinExp}}

Expressions ==
    Literals
    \cup {Fraction(numer, denom) :
            numer \in Literals \cup Nested, denom \in Literals \cup Nested}
    \cup {[form |-> "interval", numer |-> numer, denom |-> denom, interval |-> interval] :
            numer \in Literals \cup Nested, denom \in Literals \cup Nested,
            interval \in Intervals \cup Nested \cup {Word}}
    \cup {[form |-> "cents", cents_value |-> cents_value] :
            cents_value \in CentsValues \cup Nested \cup {Word, Fraction(Literal(FOne), Literal(FOne))}}
    \cup {[form |-> "paren", inner |-> inner] : inner \in Numbers \cup Nested}

\* The specification SpecExpression: one call of from_str on one string.
InitExpression ==
    /\ SynthIdle
    /\ \E s \in Expressions : expr = [pc |-> "call", s |-> s]
    /\ startup = Off
    /\ midi = Off
    /\ model = Off
    /\ search = Off
    /\ backend = Off

ParseExpression ==
    /\ expr.pc = "call"
    /\ expr' = [pc |-> "done", s |-> expr.s, result |-> FromStr(expr.s)]
    /\ UNCHANGED <<queue, state, pc, sent, lifecycle, buffer, heard, frac,
                   startup, midi, model, search, backend>>

NextExpression == ParseExpression

SpecExpression == InitExpression /\ [][NextExpression]_vars

\* the value of the whole expression, where all its parts parse to finite
\* floats
Whole(s) == Evaluate(ParseRatio(s).value)

\* C21: from_str succeeds only for a whole expression that evaluates to a
\* finite number > 0, and then holds that number as its ratio; a whole
\* expression evaluating to 0 or to a negative number is rejected with
\* "Evaluates to <v> but should be positive", one evaluating to an infinity
\* or NaN with "Evaluates to <v>".
C21_PositiveFiniteOnly ==
    expr.pc = "done" =>
        LET result == expr.result
        IN  /\ result.ok =>
                /\ ParseRatio(expr.s).ok
                /\ result.ratio = Whole(expr.s)
                /\ IsFinite(result.ratio)
                /\ result.ratio[1] > 0
            /\ ParseRatio(expr.s).ok =>
                LET v == Whole(expr.s)
                IN  /\ (IsFinite(v) /\ v[1] > 0) => result.ok
                    /\ (IsFinite(v) /\ v[1] <= 0) =>
                        /\ ~result.ok
                        /\ result.err = <<"Invalid", "expression", "Evaluates to", v,
                                          "but should be positive">>
                    /\ ~IsFinite(v) =>
                        /\ ~result.ok
                        /\ result.err = <<"Invalid", "expression", "Evaluates to", v>>

\* all four kinds of outcome have been seen for an interval fraction: here
\* the accepted one, 16^(1/2) = 4
C21_Witness ==
    /\ expr.pc = "done"
    /\ expr.s.form = "interval"
    /\ expr.result.ok
    /\ expr.result.ratio = Float(4, 1)

\* ------------------------------------------------------ startup (main.rs)
\* The process from main to its exit: the options of the command line, the
\* config file, the parts created and alive, what was printed to stderr.
NoExit == -1

\* the parts create_model_from_run_options creates before it loads the config
BeforeLoad ==
    {"midi_out_connection", "midi_out_task", "midi_out_backend",
     "fluid_backend", "fluid_synth"}

\* the parts it creates after it has loaded the config
AfterLoad ==
    {"waveform_backend", "waveform_synth", "no_audio_backend", "effects",
     "engine", "audio", "midi_in_connection"}

\* the forwarding task of midi::create owns the connection to the device and
\* runs until every Sender of its channel is dropped
Detached == {"midi_out_connection", "midi_out_task"}

Absent == [exists |-> FALSE, content |-> "none"]
Present(content) == [exists |-> TRUE, content |-> content]

ConfigFiles == {Absent, Present("defaults"), Present("custom"), Present("malformed")}

Subcommands == {"run", "devices"}

\* serde_yaml::from_reader on the content of the file
Deserializes(content) == content \in {"defaults", "custom"}

\* load that replaces a malformed file by the defaults (a variant of Load)
LoadOverwriting(file, open_ok, create_ok, write_ok) ==
    IF file.exists /\ Deserializes(file.content)
    THEN [result |-> "Ok", config |-> file.content, file |-> file]
    ELSE [result |-> "Ok", config |-> "defaults", file |-> Present("defaults")]

\* MicrowaveConfig::load: open_ok, create_ok and write_ok are the outcomes of
\* File::open, File::create and serde_yaml::to_writer
Load(file, open_ok, create_ok, write_ok) ==
    IF file.exists
    THEN IF ~open_ok THEN [result |-> "IoError", config |-> "none", file |-> file]
         ELSE IF Deserializes(file.content)
         THEN [result |-> "Ok", config |-> file.content, file |-> file]
         ELSE [result |-> "CommandError", config |-> "none", file |-> file]
    ELSE IF ~create_ok THEN [result |-> "IoError", config |-> "none", file |-> file]
         ELSE IF ~write_ok
         THEN [result |-> "CommandError", config |-> "none", file |-> Present("partial")]
         ELSE [result |-> "Ok", config |-> "defaults", file |-> Present("defaults")]

\* the specification SpecStartup starts one process
InitStartup ==
    /\ SynthIdle
    /\ expr = Off
    /\ \E subcommand \in Subcommands, file \in ConfigFiles,
          midi_out_device \in BOOLEAN, midi_tuning_method \in BOOLEAN,
          midi_in_device \in BOOLEAN :
        startup = [pc |-> "main",
                   subcommand |-> subcommand,
                   midi_out_device |-> midi_out_device,
                   midi_tuning_method |-> midi_tuning_method,
                   midi_in_device |-> midi_in_device,
                   file |-> file, before |-> file,
                   load |-> "none", config |-> "none",
                   created |-> {}, alive |-> {},
                   result |-> "none", stderr |-> <<>>, exit_code |-> NoExit]
    /\ midi = Off
    /\ model = Off
    /\ search = Off
    /\ backend = Off

StartupFrame ==
    UNCHANGED <<queue, state, pc, sent, lifecycle, buffer, heard, frac,
                expr, midi, model, search, backend>>

\* a step of create_model_from_run_options to the step next
Continue(next, parts) ==
    startup' = [startup EXCEPT !.pc = next,
                               !.created = @ \cup parts,
                               !.alive = @ \cup parts]

\* an Err leaves create_model_from_main_options by ?: the parts made on the
\* way and the locals are dropped
Return(err, parts) ==
    startup' = [startup EXCEPT !.pc = "err",
                               !.result = err,
                               !.created = @ \cup parts,
                               !.alive = (@ \cup parts) \cap Detached]

\* create_model_from_main_options: the match on the subcommand
MainOptions ==
    /\ startup.pc = "main"
    /\ \/ /\ startup.subcommand = "run"
          /\ \E ok \in BOOLEAN :
                IF ok THEN Continue("midi_out", {}) ELSE Return("CommandError", {})
       \/ /\ startup.subcommand = "devices"
          /\ \E ok \in BOOLEAN :
                IF ok THEN startup' = [startup EXCEPT !.pc = "none", !.result = "Ok"]
                ELSE Return("IoError", {})
    /\ StartupFrame

\* if let Some(target_port) = options.midi_out_device { midi::create(..)? }
CreateMidiOut ==
    /\ startup.pc = "midi_out"
    /\ IF ~startup.midi_out_device THEN Continue("fluid", {})
       ELSE IF ~startup.midi_tuning_method THEN Return("CommandError", {})
       ELSE \E connected \in BOOLEAN, target \in BOOLEAN :
            IF ~connected THEN Return("IoError", {})
            ELSE IF ~target THEN Return("CommandError", Detached)
            ELSE Continue("fluid", Detached \cup {"midi_out_backend"})
    /\ StartupFrame

\* fluid::create(..)?
CreateFluid ==
    /\ startup.pc = "fluid"
    /\ \E ok \in BOOLEAN :
        IF ok THEN Continue("load", {"fluid_backend", "fluid_synth"})
        ELSE Return("IoError", {})
    /\ StartupFrame

\* LoadConfig that goes on with the defaults after an error (a variant)
LoadConfigLenient ==
    /\ startup.pc = "load"
    /\ \E open_ok \in BOOLEAN, create_ok \in BOOLEAN, write_ok \in BOOLEAN :
        LET loaded == Load(startup.file, open_ok, create_ok, write_ok)
        IN  startup' = [startup EXCEPT
                !.file = loaded.file,
                !.load = loaded.result,
                !.config = IF loaded.result = "Ok" THEN loaded.config ELSE "defaults",
                !.pc = "synth"]
    /\ StartupFrame

\* MicrowaveConfig::load(&options.waveforms_file_location)?
LoadConfig ==
    /\ startup.pc = "load"
    /\ \E open_ok \in BOOLEAN, create_ok \in BOOLEAN, write_ok \in BOOLEAN :
        LET loaded == Load(startup.file, open_ok, create_ok, write_ok)
        IN  startup' = [startup EXCEPT
                !.file = loaded.file,
                !.load = loaded.result,
                !.config = loaded.config,
                !.pc = IF loaded.result = "Ok" THEN "synth" ELSE "err",
                !.result = IF loaded.result = "Ok" THEN @ ELSE loaded.result,
                !.alive = IF loaded.result = "Ok" THEN @ ELSE @ \cap Detached]
    /\ StartupFrame

\* the effects, synth::create, NoAudio::new, PianoEngine::new, AudioModel::new
CreateEngine ==
    /\ startup.pc = "synth"
    /\ Continue("midi_in", {"waveform_backend", "waveform_synth", "no_audio_backend",
                            "effects", "engine", "audio"})
    /\ StartupFrame

\* options.midi_in_device.map(midi::connect_to_midi_device).transpose()?
ConnectMidiIn ==
    /\ startup.pc = "midi_in"
    /\ IF ~startup.midi_in_device
       THEN startup' = [startup EXCEPT !.pc = "some", !.result = "Ok"]
       ELSE \E ok \in BOOLEAN :
            IF ok THEN startup' = [startup EXCEPT !.pc = "some", !.result = "Ok",
                                       !.created = @ \cup {"midi_in_connection"},
                                       !.alive = @ \cup {"midi_in_connection"}]
            ELSE Return("IoError", {})
    /\ StartupFrame

\* main: Err(err) => eprintln!("[FAIL] {err:?}")
MainFail ==
    /\ startup.pc = "err"
    /\ startup' = [startup EXCEPT !.pc = "returning",
                                  !.stderr = Append(@, <<"[FAIL]", startup.result>>)]
    /\ StartupFrame

\* main: Ok(None) => {}
MainNone ==
    /\ startup.pc = "none"
    /\ startup' = [startup EXCEPT !.pc = "returning"]
    /\ StartupFrame

\* main: Ok(Some(model)) => run_app(model), until the window is closed
MainRunApp ==
    /\ startup.pc = "some"
    /\ startup' = [startup EXCEPT !.pc = "returning"]
    /\ StartupFrame

\* the forwarding task finds its channel closed and ends
MidiOutTaskEnds ==
    /\ startup.pc \in {"err", "returning"}
    /\ "midi_out_task" \in startup.alive
    /\ startup' = [startup EXCEPT !.alive = @ \ Detached]
    /\ StartupFrame

\* main returns (): the process exits with the exit code of a main that
\* returned, which is 0
MainReturns ==
    /\ startup.pc = "returning"
    /\ startup' = [startup EXCEPT !.pc = "exited", !.exit_code = 0, !.alive = {}]
    /\ StartupFrame

NextStartup ==
    \/ MainOptions
    \/ CreateMidiOut
    \/ CreateFluid
    \/ LoadConfig
    \/ CreateEngine
    \/ ConnectMidiIn
    \/ MainFail
    \/ MainNone
    \/ MainRunApp
    \/ MidiOutTaskEnds
    \/ MainReturns

SpecStartup == InitStartup /\ [][NextStartup]_vars

Failed == startup.result \in {"IoError", "CommandError"}

\* C22: a process that reported a failure has printed exactly one [FAIL] line
\* and exits with a nonzero exit code; exit code 0 only after a success.
C22_FailureExitsNonzero ==
    startup.pc = "exited" =>
        /\ Failed => (Len(startup.stderr) = 1 /\ startup.exit_code # 0)
        /\ startup.exit_code = 0 => ~Failed

LoadFailed == startup.load \in {"IoError", "CommandError"}

\* C23 as stated: an absent file has been created with the defaults, which
\* load returned; a malformed file gave a CommandError and is as it was.
C23_AbsentCreatedMalformedFatal ==
    startup.load # "none" =>
        /\ ~startup.before.exists =>
            /\ startup.load = "Ok"
            /\ startup.config = "defaults"
            /\ startup.file = Present("defaults")
        /\ startup.before = Present("malformed") =>
            /\ startup.load = "CommandError"
            /\ startup.file = startup.before

\* C23: load of an absent file either creates it with the built-in defaults
\* and returns them, or fails to create it (IoError, still absent), or fails
\* to write it (CommandError); load of a present file never writes: it
\* returns the config of the file, an IoError when the file cannot be opened,
\* and a CommandError, never the defaults, when the file is malformed.
C23_LoadOutcomes ==
    startup.load # "none" =>
        /\ ~startup.before.exists =>
            \/ /\ startup.load = "Ok"
               /\ startup.config = "defaults"
               /\ startup.file = Present("defaults")
            \/ /\ startup.load = "IoError"
               /\ startup.file = Absent
            \/ /\ startup.load = "CommandError"
               /\ startup.file.exists
        /\ startup.before.exists =>
            /\ startup.file = startup.before
            /\ startup.load = "Ok" => startup.config = startup.before.content
        /\ startup.before = Present("malformed") =>
            /\ startup.load \in {"CommandError", "IoError"}
            /\ startup.config = "none"
        /\ startup.load # "Ok" => (startup.config = "none" /\ Failed)

\* an absent file was created with the defaults and the startup went on
C23_Witness ==
    /\ ~startup.before.exists
    /\ startup.load = "Ok"
    /\ startup.file = Present("defaults")
    /\ startup.pc = "exited"

\* C24 as stated: when the load of the config has failed, nothing has been
\* created and nothing is alive.
C24_NothingCreated ==
    LoadFailed => (startup.created = {} /\ startup.alive = {})

\* C24: when the load of the config has failed, startup returns the error
\* and none of the parts made after the load (waveform synth, effects,
\* engine, audio output, MIDI-in connection) has been created; the parts made
\* before it (MIDI-out connection, task and backend, soundfont backend and
\* synth) have been created and are dropped: only the MIDI-out task and its
\* connection may outlive the return, and nothing is alive at the exit.
C24_NoPartialEngine ==
    LoadFailed =>
        /\ Failed
        /\ startup.pc \in {"err", "returning", "exited"}
        /\ startup.created \subseteq BeforeLoad
        /\ startup.created \cap AfterLoad = {}
        /\ startup.alive \subseteq Detached
        /\ startup.pc = "exited" => startup.alive = {}

\* the load failed in a process that had opened a MIDI-out device
C24_Witness ==
    /\ LoadFailed
    /\ "midi_out_task" \in startup.created
    /\ "fluid_backend" \in startup.created
    /\ startup.pc = "exited"

\* ------------------------------------------------- MidiOutBackend (midi.rs)
\* The backend with the tuner of TunableBackend: set_tuning needs a number of
\* channels for the notes that are detuned differently, and the backend is
\* tuned while the channels of the tuning method suffice.
MaxProgram == 2
MaxChannels == 2

TuningMethods ==
    {"FullKeyboard", "FullKeyboardRt", "Octave1", "Octave1Rt", "Octave2", "Octave2Rt",
     "ChannelFineTuning", "PitchBend"}

None == "None"
NoInfo == [device |-> "none", program_number |-> 0, tuning_method |-> None]

\* ViewModel for MidiInfo: write_info
WriteInfo(info) ==
    LET tuning_method ==
            CASE info.tuning_method = "FullKeyboard" -> "Single Note Tuning Change"
              [] info.tuning_method = "FullKeyboardRt" -> "Single Note Tuning Change (realtime)"
              [] info.tuning_method = "Octave1" -> "Scale/Octave Tuning (1-Byte)"
              [] info.tuning_method = "Octave1Rt" -> "Scale/Octave Tuning (1-Byte) (realtime)"
              [] info.tuning_method = "Octave2" -> "Scale/Octave Tuning (2-Byte)"
              [] info.tuning_method = "Octave2Rt" -> "Scale/Octave Tuning (2-Byte) (realtime)"
              [] info.tuning_method = "ChannelFineTuning" -> "Channel Fine Tuning"
              [] info.tuning_method = "PitchBend" -> "Pitch Bend"
              [] info.tuning_method = None ->
                    "None. Tuning channels exceeded! Change tuning mode."
    IN  <<"Output [Alt+O]: MIDI", "Device:", info.device,
          "Tuning method:", tuning_method, "Program [Up/Down]:", info.program_number>>

\* midi::create for a tuning method and a number of channels
InitMidi ==
    /\ SynthIdle
    /\ expr = Off
    /\ startup = Off
    /\ \E tuning_method \in TuningMethods, channels \in 1..MaxChannels :
        midi = [pc |-> "created", device |-> "port", tuning_method |-> tuning_method,
                curr_program |-> 0, channels |-> channels, is_tuned |-> TRUE,
                info |-> NoInfo, infos |-> 0, view |-> <<>>]
    /\ model = Off
    /\ search = Off
    /\ backend = Off

MidiFrame ==
    UNCHANGED <<queue, state, pc, sent, lifecycle, buffer, heard, frac,
                expr, startup, model, search, backend>>

\* MidiOutBackend::set_tuning: the tuning needs some number of channels
MidiSetTuning ==
    /\ midi.pc = "created"
    /\ \E needed \in 1..(MaxChannels + 1) :
        midi' = [midi EXCEPT !.is_tuned = needed <= midi.channels]
    /\ MidiFrame

\* MidiOutBackend::set_no_tuning: notes are tuned one by one as they start
MidiSetNoTuning ==
    /\ midi.pc = "created"
    /\ midi' = [midi EXCEPT !.is_tuned = TRUE]
    /\ MidiFrame

\* send_status that reports the tuning method whatever is_tuned says (a
\* variant of MidiSendStatus)
MidiSendStatusConfigured ==
    /\ midi.pc = "created"
    /\ midi' = [midi EXCEPT !.infos = 1 - @,
                            !.info = [device |-> midi.device,
                                      program_number |-> midi.curr_program,
                                      tuning_method |-> midi.tuning_method]]
    /\ MidiFrame

\* MidiOutBackend::send_status; infos tells one message from the next
MidiSendStatus ==
    /\ midi.pc = "created"
    /\ LET is_tuned == midi.is_tuned
       IN  midi' = [midi EXCEPT !.infos = 1 - @,
                                !.info = [device |-> midi.device,
                                          program_number |-> midi.curr_program,
                                          tuning_method |->
                                              IF is_tuned THEN midi.tuning_method ELSE None]]
    /\ MidiFrame

\* MidiOutBackend::program_change with the update functions of the engine
MidiProgramChange ==
    /\ midi.pc = "created"
    /\ \E updated \in {midi.curr_program + 1,
                       IF midi.curr_program = 0 THEN 0 ELSE midi.curr_program - 1} :
        /\ updated <= MaxProgram
        /\ midi' = [midi EXCEPT !.curr_program = IF updated < 127 THEN updated ELSE 127]
    /\ MidiFrame

\* the view writes the info it received last
MidiWriteInfo ==
    /\ midi.pc = "created"
    /\ midi.info # NoInfo
    /\ midi' = [midi EXCEPT !.view = WriteInfo(midi.info)]
    /\ MidiFrame

NextMidi ==
    \/ MidiSetTuning
    \/ MidiSetNoTuning
    \/ MidiSendStatus
    \/ MidiProgramChange
    \/ MidiWriteInfo

SpecMidi == InitMidi /\ [][NextMidi]_vars

\* C25: a status message carries the configured tuning method if the backend
\* is tuned when the message is sent and no tuning method if it is not
\* (the channels of the method are exceeded); the view writes a message
\* without tuning method as "Tuning channels exceeded", and no other.
C25_StatusReportsTuning ==
    [][/\ midi'.infos # midi.infos =>
            /\ midi.is_tuned => midi'.info.tuning_method = midi.tuning_method
            /\ ~midi.is_tuned => midi'.info.tuning_method = None
            /\ midi'.info.tuning_method \in TuningMethods <=> midi.is_tuned
       /\ midi'.view # midi.view =>
            (midi'.view[5] = "None. Tuning channels exceeded! Change tuning mode."
                <=> midi.info.tuning_method = None)
      ]_vars

\* the tuning exceeded the channels, the status was sent and written
C25_Witness ==
    /\ midi.pc = "created"
    /\ ~midi.is_tuned
    /\ midi.info.tuning_method = None
    /\ midi.view # <<>>
    /\ midi.view[5] = "None. Tuning channels exceeded! Change tuning mode."

\* ------------------------------------------ Model: the keyboard (model.rs)
NumKeys == 2
MaxForwarded == 4

\* the coordinates calc_hex_location gives to the keys of the keyboard
KeyCoords == {<<x, 0>> : x \in 0..(NumKeys - 1)}

Pressed(key) == [event |-> "Pressed", key |-> key]
Released(key) == [event |-> "Released", key |-> key]

\* keyboard_event that forwards the event whatever net_change says (a variant
\* of KeyboardEvent)
KeyboardEventAlways(m, key, pressed) ==
    [m EXCEPT !.pressed_physical_keys = IF pressed THEN @ \cup {key} ELSE @ \ {key},
              !.forwarded = Append(@, IF pressed THEN Pressed(key) ELSE Released(key))]

\* Model::keyboard_event on the model m: HashSet::insert and HashSet::remove
\* return whether the set changed
KeyboardEvent(m, key, pressed) ==
    LET event == IF pressed THEN Pressed(key) ELSE Released(key)
        net_change == IF pressed THEN key \notin m.pressed_physical_keys
                      ELSE key \in m.pressed_physical_keys
    IN  [m EXCEPT !.pressed_physical_keys = IF pressed THEN @ \cup {key} ELSE @ \ {key},
                  !.forwarded = IF net_change THEN Append(@, event) ELSE @]

\* Model::new
InitKeyboard ==
    /\ SynthIdle
    /\ expr = Off
    /\ startup = Off
    /\ midi = Off
    /\ model = [pc |-> "keys", pressed_physical_keys |-> {}, alt |-> FALSE, ctrl |-> FALSE,
                forwarded |-> <<>>, raw |-> [key \in KeyCoords |-> "none"]]
    /\ search = Off
    /\ backend = Off

ModelFrame ==
    UNCHANGED <<queue, state, pc, sent, lifecycle, buffer, heard, frac,
                expr, startup, midi, search, backend>>

\* raw_event for a key that has a coordinate; raw is the state of the key
\* that the event reports
RawKey ==
    /\ model.pc = "keys"
    /\ Len(model.forwarded) < MaxForwarded
    /\ \E key \in KeyCoords, pressed \in BOOLEAN :
        LET seen == [model EXCEPT !.raw[key] = IF pressed THEN "Pressed" ELSE "Released"]
        IN  model' = IF ~model.alt THEN KeyboardEvent(seen, key, pressed) ELSE seen
    /\ ModelFrame

\* raw_event for LAlt or RAlt, keys without a coordinate
RawAlt ==
    /\ model.pc = "keys"
    /\ \E pressed \in BOOLEAN : model' = [model EXCEPT !.alt = pressed]
    /\ ModelFrame

\* raw_event for LControl or RControl, keys without a coordinate
RawControl ==
    /\ model.pc = "keys"
    /\ \E pressed \in BOOLEAN : model' = [model EXCEPT !.ctrl = pressed]
    /\ ModelFrame

NextKeyboard ==
    \/ RawKey
    \/ RawAlt
    \/ RawControl

SpecKeyboard == InitKeyboard /\ [][NextKeyboard]_vars

\* the events forwarded to the engine for a key, in order
ForwardedFor(key) == SelectSeq(model.forwarded, LAMBDA e : e.key = key)

\* C26: the events forwarded for a key alternate Pressed, Released, Pressed,
\* ... from Pressed on, and pressed_physical_keys is the set of the keys whose
\* last forwarded event is Pressed.
C26_ForwardedAlternate ==
    model.pc = "keys" =>
        /\ \A key \in KeyCoords :
            \A i \in 1..Len(ForwardedFor(key)) :
                ForwardedFor(key)[i].event = IF i % 2 = 1 THEN "Pressed" ELSE "Released"
        /\ model.pressed_physical_keys =
            {key \in KeyCoords :
                /\ ForwardedFor(key) # <<>>
                /\ ForwardedFor(key)[Len(ForwardedFor(key))].event = "Pressed"}

\* a key was pressed, released and pressed again while another key is held
C26_Witness ==
    /\ model.pc = "keys"
    /\ \E key \in KeyCoords :
        /\ Len(ForwardedFor(key)) = 3
        /\ model.pressed_physical_keys = KeyCoords

\* C27: a key whose last raw event is a release is not in
\* pressed_physical_keys (its Pressed has been followed by a Released).
C27_RawReleaseReleases ==
    model.pc = "keys" =>
        \A key \in KeyCoords :
            model.raw[key] = "Released" => key \notin model.pressed_physical_keys

\* ----------------------------------------- Model: the borders (model.rs)
\* A positive f64 (a pitch in Hz, a ratio) is the integer 12 * log2 of it,
\* its size in semitones: the finite ones lie between LogMin and LogMax, a
\* larger product is infinite and a smaller one is 0.
LogMax == 12 * F64MaxExp - 1
LogMin == 12 * F64MinExp + 1
Infinite == LogMax + 1
Zero == LogMin - 1
NotANumber == LogMax + 2

\* NoteLetter::A.in_octave(0).pitch() and NoteLetter::C.in_octave(8).pitch()
PitchA0 == 57
PitchC8 == 144

\* the result of exp2 and of a product of finite floats
Saturated(v) == IF v > LogMax THEN Infinite ELSE IF v < LogMin THEN Zero ELSE v

\* a * b on f64 that are not negative
Times(a, b) ==
    IF a = NotANumber \/ b = NotANumber THEN NotANumber
    ELSE IF {a, b} = {Zero, Infinite} THEN NotANumber
    ELSE IF a = Zero \/ b = Zero THEN Zero
    ELSE IF a = Infinite \/ b = Infinite THEN Infinite
    ELSE Saturated(a + b)

\* a / b on f64 that are not negative
Over(a, b) ==
    IF a = NotANumber \/ b = NotANumber THEN NotANumber
    ELSE IF a = b /\ a \in {Zero, Infinite} THEN NotANumber
    ELSE IF a = Zero \/ b = Infinite THEN Zero
    ELSE IF a = Infinite \/ b = Zero THEN Infinite
    ELSE Saturated(a - b)

\* Ratio::between_pitches
BetweenPitches(pitch_a, pitch_b) == Over(pitch_b, pitch_a)

\* ratio.repeated(x_delta / 500.0) for x_delta # 0: exp2 of log2 times the
\* number of repetitions
Repeated(ratio, x_delta) ==
    IF ratio = NotANumber THEN NotANumber
    ELSE IF ratio = Infinite THEN (IF x_delta > 0 THEN Infinite ELSE Zero)
    ELSE IF ratio = Zero THEN (IF x_delta > 0 THEN Zero ELSE Infinite)
    ELSE Saturated((ratio * x_delta) \div 500)

\* Ratio::from_semitones(y_delta / 10.0)
FromSemitones(y_delta) == Saturated(y_delta \div 10)

\* lowest < highest on Pitch
PitchLess(a, b) == a # NotANumber /\ b # NotANumber /\ a < b

\* the scroll deltas (x, y) of the events
ScrollDeltas ==
    {<<50000, 0>>, <<-50000, 0>>, <<0, 50000>>, <<0, -50000>>,
     <<25000, 0>>, <<-25000, 0>>, <<0, 25000>>, <<0, -25000>>}

InitWheel ==
    /\ SynthIdle
    /\ expr = Off
    /\ startup = Off
    /\ midi = Off
    /\ model = [pc |-> "wheel", alt |-> FALSE,
                pitch_at_left_border |-> PitchA0, pitch_at_right_border |-> PitchC8]
    /\ search = Off
    /\ backend = Off

\* model::mouse_wheel
MouseWheel ==
    /\ model.pc = "wheel"
    /\ \E delta \in ScrollDeltas :
        LET x_delta == IF model.alt THEN 0 - delta[2] ELSE delta[1]
            y_delta == IF model.alt THEN delta[1] ELSE delta[2]
        IN  IF Magnitude(x_delta) > Magnitude(y_delta)
            THEN LET ratio == Repeated(BetweenPitches(model.pitch_at_left_border,
                                                      model.pitch_at_right_border), x_delta)
                 IN  model' = [model EXCEPT
                        !.pitch_at_left_border = Times(model.pitch_at_left_border, ratio),
                        !.pitch_at_right_border = Times(model.pitch_at_right_border, ratio)]
            ELSE LET ratio == FromSemitones(y_delta)
                     lowest == Times(model.pitch_at_left_border, ratio)
                     highest == Over(model.pitch_at_right_border, ratio)
                 IN  model' = IF PitchLess(lowest, highest)
                              THEN [model EXCEPT !.pitch_at_left_border = lowest,
                                                 !.pitch_at_right_border = highest]
                              ELSE model
    /\ ModelFrame

\* raw_event for LAlt or RAlt while the borders are watched
WheelAlt ==
    /\ model.pc = "wheel"
    /\ \E pressed \in BOOLEAN : model' = [model EXCEPT !.alt = pressed]
    /\ ModelFrame

NextWheel ==
    \/ MouseWheel
    \/ WheelAlt

SpecWheel == InitWheel /\ [][NextWheel]_vars

\* C29: pitch_at_left_border is strictly lower than pitch_at_right_border.
C29_LeftBelowRight ==
    model.pc = "wheel" =>
        PitchLess(model.pitch_at_left_border, model.pitch_at_right_border)

\* --------------------------- the search loop of NearestFraction::for_ratio
\* (src/src/pitch.rs) One step per evaluation of the while condition, for
\* ratios of either sign, 0, the infinities and NaN: a float is a pair
\* <<a, b>> with b >= 0, <<a, 0>> is an infinity of the sign of a, <<0, 0>>
\* is NaN.
MaxSearchTerm == 3

\* partial_cmp gives Less (false whenever one side is NaN)
PartialLess(x, y) ==
    /\ x # FNaN
    /\ y # FNaN
    /\ IF x[2] = 0 /\ y[2] = 0 THEN x[1] < y[1] ELSE x[1] * y[2] < y[1] * x[2]

\* Ratio::abs for a float of either sign
AbsOf(x) ==
    IF x[2] > 0 /\ 0 - x[2] < x[1] /\ x[1] < x[2]
    THEN IF x[1] > 0 THEN <<x[2], x[1]>>
         ELSE IF x[1] < 0 THEN <<0 - x[2], 0 - x[1]>>
         ELSE FInf
    ELSE x

\* the ratios searched for: n / d and -n / d, 0, the infinities and NaN
SearchRatios ==
    {<<n, d>> : n \in 1..MaxSearchTerm, d \in 1..MaxSearchTerm}
    \cup {<<0 - n, 1>> : n \in 1..MaxSearchTerm}
    \cup {FZero, FInf, FNegInf, FNaN}

SearchLimits == {0, 1, 3}

\* target_ratio: log2 of a negative number or of NaN is NaN, which the cast
\* to i32 turns into 0 octaves; the octaves of 0 and of infinity saturate the
\* cast, and the deviation from them is 0/0 or inf/inf
SearchTarget(ratio) ==
    IF ratio = FNaN \/ ratio = FZero \/ ratio = FInf THEN FNaN
    ELSE IF ratio[1] < 0 THEN ratio
    ELSE TargetRatio(ratio[1], ratio[2])

InitSearch ==
    /\ SynthIdle
    /\ expr = Off
    /\ startup = Off
    /\ midi = Off
    /\ model = Off
    /\ \E ratio \in SearchRatios, odd_limit \in SearchLimits :
        search = [pc |-> "loop", odd_limit |-> odd_limit,
                  target_ratio |-> SearchTarget(ratio),
                  left |-> <<0, 1>>, right |-> <<1, 0>>,
                  best |-> <<0, 0>>, best_deviation |-> FInf]
    /\ backend = Off

SearchFrame ==
    UNCHANGED <<queue, state, pc, sent, lifecycle, buffer, heard, frac,
                expr, startup, midi, model, backend>>

\* left + right where the loop is; the additions of the code are checked
Mediant == <<search.left[1] + search.right[1], search.left[2] + search.right[2]>>

\* an iteration that keeps the side it should replace (a variant of WhileLet)
WhileLetStuck ==
    /\ search.pc = "loop"
    /\ search' = [search EXCEPT !.pc = IF Mediant[1] > U16Max \/ Mediant[2] > U16Max
                                       THEN "done" ELSE "loop",
                                !.best = Mediant]
    /\ SearchFrame

\* one evaluation of the while let condition and, if it holds, the body
WhileLet ==
    /\ search.pc = "loop"
    /\ LET mid == Mediant
           odd_factors_numer == OddFactorsU16(mid[1])
           odd_factors_denom == OddFactorsU16(mid[2])
           mid_deviation == DeviationFrom(search.target_ratio, mid)
           better == /\ odd_factors_numer <= search.odd_limit
                     /\ odd_factors_denom <= search.odd_limit
                     /\ PartialLess(AbsOf(mid_deviation), AbsOf(search.best_deviation))
           found == [search EXCEPT !.best = IF better THEN mid ELSE @,
                                   !.best_deviation = IF better THEN mid_deviation ELSE @]
       IN  IF mid[1] > U16Max \/ mid[2] > U16Max
           THEN search' = [search EXCEPT !.pc = "done"]
           ELSE IF odd_factors_numer > search.odd_limit
                   /\ odd_factors_denom > search.odd_limit
           THEN search' = [search EXCEPT !.pc = "done"]
           ELSE IF PartialLess(search.target_ratio, mid)
           THEN search' = [found EXCEPT !.right = mid]
           ELSE IF PartialLess(mid, search.target_ratio)
           THEN search' = [found EXCEPT !.left = mid]
           ELSE search' = [found EXCEPT !.pc = "done"]
    /\ SearchFrame

NextSearch == WhileLet

SpecSearch == InitSearch /\ [][NextSearch]_vars

\* C28 as stated: an iteration breaks or makes both the numerator and the
\* denominator of the mediant larger.
C28_BothTermsGrow ==
    [][search.pc = "loop" =>
        \/ search'.pc = "done"
        \/ /\ Mediant'[1] > Mediant[1]
           /\ Mediant'[2] > Mediant[2]
      ]_vars

\* C28: an iteration ends the loop or replaces one side by the mediant, so
\* that neither term of the next mediant is smaller and their sum is larger;
\* the terms of a mediant that is searched are at most u16::MAX, and the loop
\* has ended once a sum of terms exceeds u16::MAX.
C28_SearchTerminates ==
    [][search.pc = "loop" =>
        /\ (Mediant[1] > U16Max \/ Mediant[2] > U16Max) => search'.pc = "done"
        /\ search.left[1] <= U16Max /\ search.left[2] <= U16Max
        /\ search.right[1] <= U16Max /\ search.right[2] <= U16Max
        /\ \/ search'.pc = "done"
           \/ /\ Mediant'[1] >= Mediant[1]
              /\ Mediant'[2] >= Mediant[2]
              /\ Mediant'[1] + Mediant'[2] > Mediant[1] + Mediant[2]
      ]_vars

\* a search for a negative ratio has ended by the overflow of the
\* denominator, its numerator still 1
C28_Witness ==
    /\ search.pc = "done"
    /\ search.target_ratio[1] < 0
    /\ search.right = <<1, U16Max>>
    /\ search.left = <<0, 1>>

\* ------------------------------------ WaveformBackend: the current waveform
MaxWaveforms == 8

NoWaveform == -1

\* the functions program_change is called with: one program up, one program
\* down, and the program of a MIDI program change
UpdateFns ==
    {[kind |-> kind, program |-> 0] : kind \in {"inc", "dec"}}
    \cup {[kind |-> "set", program |-> program] : program \in 0..MaxWaveforms}

Update(update_fn, program) ==
    IF update_fn.kind = "inc" THEN program + 1
    ELSE IF update_fn.kind = "dec" THEN (IF program = 0 THEN 0 ELSE program - 1)
    ELSE update_fn.program

\* create: the waveforms of the config file, of which there may be none
InitBackend ==
    /\ SynthIdle
    /\ expr = Off
    /\ startup = Off
    /\ midi = Off
    /\ model = Off
    /\ search = Off
    /\ \E len \in 0..MaxWaveforms :
        backend = [pc |-> "created", len |-> len, curr_waveform |-> 0,
                   waveform_number |-> NoWaveform, waveform |-> NoWaveform]

BackendFrame ==
    UNCHANGED <<queue, state, pc, sent, lifecycle, buffer, heard, frac,
                expr, startup, midi, model, search>>

\* &self.waveforms[index]: an index out of bounds panics
Indexed(b, index) == index < b.len

\* WaveformBackend::send_status on the backend b
SendStatus(b) ==
    IF Indexed(b, b.curr_waveform)
    THEN [b EXCEPT !.waveform_number = b.curr_waveform]
    ELSE [b EXCEPT !.pc = "panicked"]

\* WaveformBackend::program_change: % panics for a divisor 0
ProgramChange ==
    /\ backend.pc = "created"
    /\ \E update_fn \in UpdateFns :
        IF backend.len = 0
        THEN backend' = [backend EXCEPT !.pc = "panicked"]
        ELSE backend' = SendStatus([backend EXCEPT !.curr_waveform =
                            Update(update_fn, backend.curr_waveform + backend.len)
                                % backend.len])
    /\ BackendFrame

\* WaveformBackend::send_status, called by the engine
BackendSendStatus ==
    /\ backend.pc = "created"
    /\ backend' = SendStatus(backend)
    /\ BackendFrame

\* WaveformBackend::start: the waveform it creates the voice from
StartWaveform ==
    /\ backend.pc = "created"
    /\ backend' = IF Indexed(backend, backend.curr_waveform)
                  THEN [backend EXCEPT !.waveform = backend.curr_waveform]
                  ELSE [backend EXCEPT !.pc = "panicked"]
    /\ BackendFrame

NextBackend ==
    \/ ProgramChange
    \/ BackendSendStatus
    \/ StartWaveform

SpecBackend == InitBackend /\ [][NextBackend]_vars

\* C30: curr_waveform is an index into waveforms, and no call of start,
\* send_status or program_change has panicked.
C30_ValidWaveformIndex ==
    backend.pc # "off" =>
        /\ backend.curr_waveform < backend.len
        /\ backend.pc # "panicked"

====
